---- MODULE Spec2Model ----
(***************************************************************************)
(* nws_patch: the patched NWSWeather.forecast property (daily_forecast)    *)
(* and its helpers _merge_fcasts and _convert_single_fcast, modelled from  *)
(* custom_components/nws_patch/__init__.py (specification Spec), and the   *)
(* setup, retry and removal hooks that install and remove the patch        *)
(* (specification PatchSpec).                                              *)
(*                                                                         *)
(* Strings the code takes apart or compares are sequences of characters    *)
(* (descriptions, the summary) or of their ordered components (the         *)
(* datetime strings); a Python dict is a function from its keys.           *)
(***************************************************************************)
EXTENDS Integers, Sequences, FiniteSets, TLC

VARIABLES
    NWS_FORECAST_PROP,   \* module global: the captured original property, or "None"
    mode,                \* self.mode of the entity
    nws_forecast,        \* what the original forecast property yields for the entity
    orig_forecast,       \* daily_forecast's local: the value it read from the original
    bucket,              \* daily_forecast's local: the day buckets, in insertion order
    forecast,            \* daily_forecast's local: the records built by the bucket loop
    tomorrow,            \* daily_forecast's local: a single-period bucket was seen
    detailed_forecast,   \* what the entity's detailed_forecast getter returns
    result,              \* the outcome of the property read
    NWS_STATE_ATTRIBUTE_PROP,     \* module global: the captured state_attributes
    NWSWeather_forecast,          \* the class attribute NWSWeather.forecast
    NWSWeather_state_attributes,  \* the class attribute NWSWeather.state_attributes
    module_available,    \* homeassistant.components.nws can be imported
    timers,              \* the callbacks async_call_later holds, not yet run
    setup_called,        \* the host has invoked async_setup
    entry,               \* the config entry: "absent" or "loaded"
    entries,             \* how often the host has invoked async_setup_entry
    retries,             \* per hook invocation by the host: the retries scheduled
    removed              \* async_remove_entry has completed and the host has not
                         \* invoked async_setup_entry since

\* the state of one read of the forecast property
read_vars == <<mode, nws_forecast, orig_forecast, bucket, forecast, tomorrow,
               detailed_forecast, result>>

\* the state of the hooks, apart from NWS_FORECAST_PROP
patch_vars == <<NWS_STATE_ATTRIBUTE_PROP, NWSWeather_forecast,
                NWSWeather_state_attributes, module_available, timers, setup_called,
                entry, entries, retries, removed>>

vars == <<NWS_FORECAST_PROP, read_vars, patch_vars>>

\* ------------------------------------------------------------------ bounds

\* Longest forecast list the provider yields.
MaxLen == 3
\* Calendar dates the periods' timestamps range over.
MaxDate == 2
\* Invocations of async_setup_entry by the host.
MaxEntries == 2

\* retry_setup gives up when tries exceeds this.
MaxTries == 10

\* ------------------------------------------------------------ Python values

None == [kind |-> "None"]
List(s) == [kind |-> "list", items |-> s]
Pending == [kind |-> "pending"]
IndexError == [kind |-> "IndexError"]
RecursionError == [kind |-> "RecursionError"]

\* d[k] = v  and  del d[k]  on a dict
DictSet(d, k, v) == [x \in (DOMAIN d) \cup {k} |-> IF x = k THEN v ELSE d[x]]
DictDel(d, k) == [x \in (DOMAIN d) \ {k} |-> d[x]]

ATTR_FORECAST_NATIVE_TEMP == "native_temperature"
ATTR_FORECAST_NATIVE_TEMP_LOW == "native_templow"
DAYNIGHT == "daynight"
HOURLY == "hourly"

\* ------------------------------------------------------------------ strings

Whitespace == {" ", "\n", "\t"}

RECURSIVE lstrip(_)
lstrip(s) == IF s # <<>> /\ Head(s) \in Whitespace THEN lstrip(Tail(s)) ELSE s

RECURSIVE rstrip(_)
rstrip(s) ==
    IF s # <<>> /\ s[Len(s)] \in Whitespace THEN rstrip(SubSeq(s, 1, Len(s) - 1)) ELSE s

\* str.strip()
strip(s) == rstrip(lstrip(s))

Hashes == <<"#", "#", "#", " ">>
NL == <<"\n">>
StrDay == <<"D", "a", "y">>
StrNight == <<"N", "i", "g", "h", "t">>
StrToday == <<"T", "o", "d", "a", "y">>
StrTonight == <<"T", "o", "n", "i", "g", "h", "t">>
StrTomorrow == <<"T", "o", "m", "o", "r", "r", "o", "w">>

\* A datetime string "2024-03-<9+date>T<hour>:00:00<off>:00" is the tuple
\* <<date, hour, off>> of its varying components, in the order they are written;
\* <<>> is a string parse_datetime cannot read.

\* The UTC offsets "+hh:00" / "-hh:00" as strings: "+" sorts before "-", and the
\* two zero-padded digits sort as the magnitude does.
OffsetStrLess(x, y) ==
    IF (x >= 0) # (y >= 0)
    THEN x >= 0
    ELSE (IF x >= 0 THEN x ELSE -x) < (IF y >= 0 THEN y ELSE -y)

\* a < b on two datetime strings (lexicographic)
StrLess(a, b) ==
    IF a = <<>> THEN b # <<>>
    ELSE IF b = <<>> THEN FALSE
    ELSE \/ a[1] < b[1]
         \/ a[1] = b[1] /\ a[2] < b[2]
         \/ a[1] = b[1] /\ a[2] = b[2] /\ OffsetStrLess(a[3], b[3])

\* homeassistant.util.dt.parse_datetime: an aware datetime, or None
parse_datetime(s) ==
    IF Len(s) = 3 THEN [date |-> s[1], hour |-> s[2], tz |-> s[3]] ELSE None

\* date.replace(hour=0, minute=0, second=0, microsecond=0): tzinfo is kept
ZeroTime(date) == [date EXCEPT !.hour = 0]

\* An aware datetime as hours since the epoch in UTC: Python compares and hashes
\* aware datetimes by this instant.
UtcHours(d) == d.date * 24 + d.hour - d.tz

\* dict key equality of two aware datetimes
DatetimeEq(a, b) == UtcHours(a) = UtcHours(b)

\* ------------------------------------------------------------------ helpers

\* Variant of MaxByDatetime: the first item is taken, whatever its datetime.
MaxByDatetimeFirst(fs) == fs[1]

\* max(fs, key=lambda item: item["datetime"]): the first item whose datetime
\* string no other item's exceeds
MaxByDatetime(fs) ==
    fs[CHOOSE i \in 1..Len(fs) :
          /\ \A j \in 1..Len(fs) : ~StrLess(fs[i].datetime, fs[j].datetime)
          /\ \A j \in 1..(i - 1) : StrLess(fs[j].datetime, fs[i].datetime)]

\* Variant of _merge_fcasts: the stricter rule that a day holds exactly two periods.
_merge_fcasts_exactly_two(fcasts) ==
    IF Len(fcasts) # 2 \/ fcasts[1].daytime = fcasts[2].daytime
    THEN None
    ELSE LET daycast == IF fcasts[1].daytime THEN fcasts[1] ELSE fcasts[2]
             nightcast == IF fcasts[1].daytime THEN fcasts[2] ELSE fcasts[1]
             description == Hashes \o StrDay \o NL
                            \o strip(daycast.detailed_description)
                            \o NL \o NL \o Hashes \o StrNight \o NL
                            \o strip(nightcast.detailed_description)
             merged == DictSet(daycast, "detailed_description", description)
         IN  DictSet(merged, ATTR_FORECAST_NATIVE_TEMP_LOW,
                     nightcast[ATTR_FORECAST_NATIVE_TEMP])

_merge_fcasts(fcasts) ==
    LET days == SelectSeq(fcasts, LAMBDA f : f.daytime)
        nights == SelectSeq(fcasts, LAMBDA f : ~f.daytime)
    IN  IF days = <<>> \/ nights = <<>>
        THEN None       \* max() of an empty sequence: ValueError
        ELSE LET daycast == MaxByDatetime(days)
                 nightcast == MaxByDatetime(nights)
                 description == Hashes \o StrDay \o NL
                                \o strip(daycast.detailed_description)
                                \o NL \o NL \o Hashes \o StrNight \o NL
                                \o strip(nightcast.detailed_description)
                 merged == DictSet(daycast, "detailed_description", description)
             IN  DictSet(merged, ATTR_FORECAST_NATIVE_TEMP_LOW,
                         nightcast[ATTR_FORECAST_NATIVE_TEMP])

\* Variant of _convert_single_fcast: a night period keeps its temperature field.
_convert_single_fcast_keep_temp(fcasts) ==
    LET first == fcasts[1]
        title == IF first.daytime THEN StrDay ELSE StrNight
        new_cast == IF first.daytime
                    THEN first
                    ELSE DictSet(first, ATTR_FORECAST_NATIVE_TEMP_LOW,
                                 first[ATTR_FORECAST_NATIVE_TEMP])
        description == Hashes \o title \o NL \o strip(new_cast.detailed_description)
    IN  DictDel(DictSet(new_cast, "detailed_description", description), "daytime")

_convert_single_fcast(fcasts) ==
    LET first == fcasts[1]
        title == IF first.daytime THEN StrDay ELSE StrNight
        new_cast == IF first.daytime
                    THEN first
                    ELSE DictDel(DictSet(first, ATTR_FORECAST_NATIVE_TEMP_LOW,
                                         first[ATTR_FORECAST_NATIVE_TEMP]),
                                 ATTR_FORECAST_NATIVE_TEMP)
        description == Hashes \o title \o NL \o strip(new_cast.detailed_description)
    IN  DictDel(DictSet(new_cast, "detailed_description", description), "daytime")

\* Variant of BucketAppend: a new day is inserted in chronological order.
BucketAppendSorted(b, date, item) ==
    IF \E i \in 1..Len(b) : DatetimeEq(b[i].day, date)
    THEN [i \in 1..Len(b) |->
            IF DatetimeEq(b[i].day, date)
            THEN [b[i] EXCEPT !.fcasts = Append(@, item)]
            ELSE b[i]]
    ELSE SelectSeq(b, LAMBDA x : UtcHours(x.day) < UtcHours(date))
         \o <<[day |-> date, fcasts |-> <<item>>]>>
         \o SelectSeq(b, LAMBDA x : UtcHours(x.day) > UtcHours(date))

\* bucket[date].append(item) on the defaultdict(list), kept in insertion order
BucketAppend(b, date, item) ==
    IF \E i \in 1..Len(b) : DatetimeEq(b[i].day, date)
    THEN [i \in 1..Len(b) |->
            IF DatetimeEq(b[i].day, date)
            THEN [b[i] EXCEPT !.fcasts = Append(@, item)]
            ELSE b[i]]
    ELSE Append(b, [day |-> date, fcasts |-> <<item>>])

\* the bucketing loop over the first n items of the original forecast
RECURSIVE BucketItems(_, _)
BucketItems(orig, n) ==
    IF n = 0 THEN <<>>
    ELSE LET b == BucketItems(orig, n - 1)
             item == orig[n]
             date == parse_datetime(item.datetime)
         IN  IF date = None THEN b
             ELSE BucketAppend(b, ZeroTime(date), item)

\* Variant of BucketLoop: a day that cannot be merged falls back to its first period.
RECURSIVE BucketLoopFallback(_, _)
BucketLoopFallback(b, n) ==
    IF n = 0 THEN [forecast |-> <<>>, tomorrow |-> FALSE]
    ELSE LET prev == BucketLoopFallback(b, n - 1)
             fcasts == b[n].fcasts
         IN  IF Len(fcasts) = 1
             THEN [forecast |-> Append(prev.forecast, _convert_single_fcast(fcasts)),
                   tomorrow |-> TRUE]
             ELSE LET new_fcast == _merge_fcasts(fcasts)
                  IN  IF new_fcast # None
                      THEN [prev EXCEPT !.forecast = Append(@, new_fcast)]
                      ELSE [prev EXCEPT
                              !.forecast = Append(@, _convert_single_fcast(fcasts))]

\* the loop over the first n buckets: the forecast list and the tomorrow flag
RECURSIVE BucketLoop(_, _)
BucketLoop(b, n) ==
    IF n = 0 THEN [forecast |-> <<>>, tomorrow |-> FALSE]
    ELSE LET prev == BucketLoop(b, n - 1)
             fcasts == b[n].fcasts
         IN  IF Len(fcasts) = 1
             THEN [forecast |-> Append(prev.forecast, _convert_single_fcast(fcasts)),
                   tomorrow |-> TRUE]
             ELSE IF Len(fcasts) >= 2
             THEN LET new_fcast == _merge_fcasts(fcasts)
                  IN  IF new_fcast # None
                      THEN [prev EXCEPT !.forecast = Append(@, new_fcast)]
                      ELSE prev
             ELSE prev

\* The dicts of a read are objects of a heap, a sequence of dicts addressed by
\* position: the periods of the original forecast come first, in input order.

\* Variant of NewDict: no copy is made, the source dict itself is written to.
SameDict(heap, src) == [heap |-> heap, ref |-> src]

\* {**source}: a new dict holding the source's items
NewDict(heap, src) == [heap |-> Append(heap, heap[src]), ref |-> Len(heap) + 1]

\* new = {**source} followed by the writes to new that make it the record
StoreRecord(heap, src, record) ==
    LET new == NewDict(heap, src) IN [new.heap EXCEPT ![new.ref] = record]

\* the heap after the loop over the first n buckets: _convert_single_fcast
\* copies fcasts[0], _merge_fcasts copies daycast, a failed merge writes nothing
RECURSIVE HeapAfter(_, _, _)
HeapAfter(orig, b, n) ==
    IF n = 0 THEN orig
    ELSE LET prev == HeapAfter(orig, b, n - 1)
             fcasts == b[n].fcasts
             ref(p) == CHOOSE i \in 1..Len(orig) : orig[i] = p
         IN  IF Len(fcasts) = 1
             THEN StoreRecord(prev, ref(fcasts[1]), _convert_single_fcast(fcasts))
             ELSE LET new_fcast == _merge_fcasts(fcasts)
                  IN  IF new_fcast # None
                      THEN StoreRecord(prev,
                               ref(MaxByDatetime(SelectSeq(fcasts, LAMBDA f : f.daytime))),
                               new_fcast)
                      ELSE prev

\* Variant of Summary: the two descriptions are stripped like the records' are.
SummaryStripped(orig, tmrw) ==
    LET first == IF tmrw THEN StrTonight ELSE StrToday
        second == IF tmrw THEN StrTomorrow ELSE StrTonight
    IN  Hashes \o first \o NL \o strip(orig[1].detailed_description) \o NL
        \o Hashes \o second \o NL \o strip(orig[2].detailed_description)

\* the two-section summary text
Summary(orig, tmrw) ==
    LET first == IF tmrw THEN StrTonight ELSE StrToday
        second == IF tmrw THEN StrTomorrow ELSE StrTonight
    IN  Hashes \o first \o NL \o orig[1].detailed_description \o NL
        \o Hashes \o second \o NL \o orig[2].detailed_description

\* Variant of IsFalsy: "orig_forecast is None".
IsNone(v) == v = None

\* Variant of IsUnaltered: the comparison inverted.
IsDayNight(m) == m = DAYNIGHT

\* "not orig_forecast": None and the empty list are falsy
IsFalsy(v) == IF v = None THEN TRUE ELSE v.items = <<>>

\* "self.mode != DAYNIGHT"
IsUnaltered(m) == m # DAYNIGHT

\* ------------------------------------------------------------ input domain

\* The provider's start times: on date 1 an overnight period that starts before a
\* daylight-saving change (offset -05:00) and, on every date, a 06:00 and an 18:00
\* period after it (offset -04:00); <<>> is an unreadable string.
Timestamps ==
    {<<>>, <<1, 1, -5>>} \cup {<<d, h, -4>> : d \in 1..MaxDate, h \in {6, 18}}

\* The description of the i-th period: plain, padded on both sides with
\* embedded whitespace, whitespace only, padded on the right.
DescriptionAt(i) ==
    CASE i = 1 -> <<"A">>
      [] i = 2 -> <<" ", "B", " ", "b", "\n">>
      [] i = 3 -> <<"\t">>
      [] OTHER -> <<"D", " ">>

\* The i-th period of a forecast; its temperature tells the periods apart.
Period(i, c) ==
    [detailed_description |-> DescriptionAt(i),
     datetime |-> c[1],
     daytime |-> c[2],
     native_temperature |-> 60 + i]

\* The forecast whose i-th period has the start time and daytime flag cs[i].
Forecast(cs) == [i \in 1..Len(cs) |-> Period(i, cs[i])]

\* ------------------------------------------------------------------- state

\* The hook invocations by the host: 0 is async_setup, 1..MaxEntries are the
\* invocations of async_setup_entry.
Chains == 0..MaxEntries

\* A read of the patched property: the patch is installed; the global holds the
\* original property, or nothing, or the patched property itself.
Init ==
    /\ NWS_FORECAST_PROP \in {"None", "original", "patched"}
    /\ NWS_STATE_ATTRIBUTE_PROP = NWS_FORECAST_PROP
    /\ NWSWeather_forecast = "patched"
    /\ NWSWeather_state_attributes = "patched"
    /\ module_available = TRUE
    /\ timers = {}
    /\ setup_called = TRUE
    /\ entry = "loaded"
    /\ entries = 1
    /\ retries = [c \in Chains |-> 0]
    /\ removed = FALSE
    /\ mode \in {DAYNIGHT, HOURLY}
    /\ \/ nws_forecast = None
       \/ \E n \in 0..MaxLen : \E cs \in [1..n -> Timestamps \X BOOLEAN] :
             nws_forecast = List(Forecast(cs))
    /\ orig_forecast = Pending
    /\ bucket = <<>>
    /\ forecast = <<>>
    /\ tomorrow = FALSE
    /\ detailed_forecast = <<>>
    /\ result = Pending

\* NWS_FORECAST_PROP is None: the original property was never captured
ForecastPropMissing ==
    /\ result = Pending
    /\ NWS_FORECAST_PROP = "None"
    /\ result' = List(<<>>)
    /\ UNCHANGED <<NWS_FORECAST_PROP, mode, nws_forecast, orig_forecast, bucket,
                   forecast, tomorrow, detailed_forecast, patch_vars>>

\* NWS_FORECAST_PROP is the patched property: its __get__ runs daily_forecast
\* again, without end
ForecastSelfDelegation ==
    /\ result = Pending
    /\ NWS_FORECAST_PROP = "patched"
    /\ result' = RecursionError
    /\ UNCHANGED <<NWS_FORECAST_PROP, mode, nws_forecast, orig_forecast, bucket,
                   forecast, tomorrow, detailed_forecast, patch_vars>>

\* the original forecast is None or empty
ForecastNone ==
    /\ result = Pending
    /\ NWS_FORECAST_PROP = "original"
    /\ orig_forecast' = nws_forecast
    /\ IsFalsy(nws_forecast)
    /\ result' = None
    /\ UNCHANGED <<NWS_FORECAST_PROP, mode, nws_forecast, bucket, forecast, tomorrow,
                   detailed_forecast, patch_vars>>

\* not the DAYNIGHT forecast: returned unaltered
ForecastUnaltered ==
    /\ result = Pending
    /\ NWS_FORECAST_PROP = "original"
    /\ orig_forecast' = nws_forecast
    /\ ~IsFalsy(nws_forecast)
    /\ IsUnaltered(mode)
    /\ result' = nws_forecast
    /\ UNCHANGED <<NWS_FORECAST_PROP, mode, nws_forecast, bucket, forecast, tomorrow,
                   detailed_forecast, patch_vars>>

\* the DAYNIGHT forecast: bucket by day, convert or merge each bucket, set the
\* summary; orig_forecast[1] of a one-period forecast raises IndexError
ForecastDayNight ==
    /\ result = Pending
    /\ NWS_FORECAST_PROP = "original"
    /\ ~IsFalsy(nws_forecast)
    /\ ~IsUnaltered(mode)
    /\ LET orig == nws_forecast.items
           b == BucketItems(orig, Len(orig))
           loop == BucketLoop(b, Len(b))
           heap == HeapAfter(orig, b, Len(b))
       IN  /\ bucket' = b
           /\ forecast' = loop.forecast
           /\ tomorrow' = loop.tomorrow
           /\ nws_forecast' = List(SubSeq(heap, 1, Len(orig)))
           /\ orig_forecast' = nws_forecast'
           /\ \/ /\ Len(orig) >= 2
                 /\ detailed_forecast' = Summary(nws_forecast'.items, loop.tomorrow)
                 /\ result' = List(loop.forecast)
              \/ /\ Len(orig) < 2
                 /\ detailed_forecast' = detailed_forecast
                 /\ result' = IndexError
    /\ UNCHANGED <<NWS_FORECAST_PROP, mode, patch_vars>>

\* one read of the patched forecast property
daily_forecast ==
    \/ ForecastPropMissing
    \/ ForecastSelfDelegation
    \/ ForecastNone
    \/ ForecastUnaltered
    \/ ForecastDayNight

Next == daily_forecast

Spec == Init /\ [][Next]_vars

\* ------------------------------------------------------- the patch's hooks

\* Variant of GivesUp: the last retry is not made.
GivesUpEarly(tries) == tries >= MaxTries

\* retry_setup: "if tries > 10"
GivesUp(tries) == tries > MaxTries

\* retry_setup: the callbacks held after it ran; the callback is scheduled with
\* tries + 1 unless retry_setup gives up
retry_setup(held, tries, callback, chain) ==
    IF GivesUp(tries) THEN held
    ELSE held \cup {[chain |-> chain, callback |-> callback, tries |-> tries + 1]}

\* the retries scheduled so far, after retry_setup ran
RetriesAfter(tries, chain) ==
    IF GivesUp(tries) THEN retries ELSE [retries EXCEPT ![chain] = @ + 1]

\* async_setup: retry later if the module cannot be imported; else copy out each
\* property of the class unless one was copied before
async_setup(tries, chain, held) ==
    /\ IF ~module_available
       THEN /\ timers' = retry_setup(held, tries, "async_setup", chain)
            /\ retries' = RetriesAfter(tries, chain)
            /\ UNCHANGED <<NWS_FORECAST_PROP, NWS_STATE_ATTRIBUTE_PROP>>
       ELSE /\ NWS_FORECAST_PROP' =
                  IF NWS_FORECAST_PROP = "None" THEN NWSWeather_forecast
                  ELSE NWS_FORECAST_PROP
            /\ NWS_STATE_ATTRIBUTE_PROP' =
                  IF NWS_STATE_ATTRIBUTE_PROP = "None" THEN NWSWeather_state_attributes
                  ELSE NWS_STATE_ATTRIBUTE_PROP
            /\ timers' = held
            /\ UNCHANGED retries
    /\ UNCHANGED <<NWSWeather_forecast, NWSWeather_state_attributes>>

\* async_setup_entry: retry later if the module cannot be imported; else replace
\* the two properties of the class
async_setup_entry(tries, chain, held) ==
    /\ IF ~module_available
       THEN /\ timers' = retry_setup(held, tries, "async_setup_entry", chain)
            /\ retries' = RetriesAfter(tries, chain)
            /\ UNCHANGED <<NWSWeather_forecast, NWSWeather_state_attributes>>
       ELSE /\ NWSWeather_forecast' = "patched"
            /\ NWSWeather_state_attributes' = "patched"
            /\ timers' = held
            /\ UNCHANGED retries
    /\ UNCHANGED <<NWS_FORECAST_PROP, NWS_STATE_ATTRIBUTE_PROP>>

\* the host sets the component up: async_setup with tries = 1
HostSetup ==
    /\ ~setup_called
    /\ setup_called' = TRUE
    /\ async_setup(1, 0, timers)
    /\ UNCHANGED <<module_available, entry, entries, removed, read_vars>>

\* the host sets the config entry up: async_setup_entry with tries = 1; it
\* returns True on both paths, so the entry is loaded
HostSetupEntry ==
    /\ setup_called
    /\ entry = "absent"
    /\ entries < MaxEntries
    /\ entries' = entries + 1
    /\ entry' = "loaded"
    /\ removed' = FALSE
    /\ async_setup_entry(1, entries + 1, timers)
    /\ UNCHANGED <<module_available, setup_called, read_vars>>

\* call_again: a callback async_call_later holds runs its hook with its tries
TimerFires ==
    /\ \E t \in timers :
          \/ /\ t.callback = "async_setup"
             /\ async_setup(t.tries, t.chain, timers \ {t})
          \/ /\ t.callback = "async_setup_entry"
             /\ async_setup_entry(t.tries, t.chain, timers \ {t})
    /\ UNCHANGED <<module_available, setup_called, entry, entries, removed, read_vars>>

\* async_remove_entry: the class gets the two globals back, whatever they hold
RemoveEntry ==
    /\ entry = "loaded"
    /\ module_available
    /\ entry' = "absent"
    /\ NWSWeather_forecast' = NWS_FORECAST_PROP
    /\ NWSWeather_state_attributes' = NWS_STATE_ATTRIBUTE_PROP
    /\ removed' = TRUE
    /\ UNCHANGED <<NWS_FORECAST_PROP, NWS_STATE_ATTRIBUTE_PROP, module_available, timers,
                   setup_called, entries, retries, read_vars>>

\* async_remove_entry while the module cannot be imported: its import raises
\* ModuleNotFoundError, nothing is restored, the host drops the entry
RemoveEntryRaises ==
    /\ entry = "loaded"
    /\ ~module_available
    /\ entry' = "absent"
    /\ UNCHANGED <<NWS_FORECAST_PROP, NWS_STATE_ATTRIBUTE_PROP, NWSWeather_forecast,
                   NWSWeather_state_attributes, module_available, timers, setup_called,
                   entries, retries, removed, read_vars>>

async_remove_entry == RemoveEntry \/ RemoveEntryRaises

\* the provider's package gets installed: the module can be imported from now on
ModuleInstalled ==
    /\ ~module_available
    /\ module_available' = TRUE
    /\ UNCHANGED <<NWS_FORECAST_PROP, NWS_STATE_ATTRIBUTE_PROP, NWSWeather_forecast,
                   NWSWeather_state_attributes, timers, setup_called, entry, entries,
                   retries, removed, read_vars>>

\* The integration has been imported and no hook has run; no property is read.
PatchInit ==
    /\ NWS_FORECAST_PROP = "None"
    /\ NWS_STATE_ATTRIBUTE_PROP = "None"
    /\ NWSWeather_forecast = "original"
    /\ NWSWeather_state_attributes = "original"
    /\ module_available \in BOOLEAN
    /\ timers = {}
    /\ setup_called = FALSE
    /\ entry = "absent"
    /\ entries = 0
    /\ retries = [c \in Chains |-> 0]
    /\ removed = FALSE
    /\ mode = DAYNIGHT
    /\ nws_forecast = None
    /\ orig_forecast = Pending
    /\ bucket = <<>>
    /\ forecast = <<>>
    /\ tomorrow = FALSE
    /\ detailed_forecast = <<>>
    /\ result = Pending

PatchNext ==
    \/ HostSetup
    \/ HostSetupEntry
    \/ TimerFires
    \/ async_remove_entry
    \/ ModuleInstalled

\* The event loop runs every callback async_call_later holds.
PatchSpec == PatchInit /\ [][PatchNext]_vars /\ WF_vars(TimerFires)

\* ---------------------------------------------------------------- properties

\* The read has ended, and it took the DAYNIGHT path on a non-empty forecast.
MergeCall ==
    /\ result # Pending
    /\ mode = DAYNIGHT
    /\ orig_forecast.kind = "list"
    /\ orig_forecast.items # <<>>

\* The periods the provider handed over.
Input == nws_forecast.items

\* A period's start as an instant (hours, UTC) and its calendar date as written.
Instant(p) == p.datetime[1] * 24 + p.datetime[2] - p.datetime[3]
CalendarDate(p) == p.datetime[1]
Readable(p) == Len(p.datetime) = 3

HasDay(fs) == \E i \in 1..Len(fs) : fs[i].daytime
HasNight(fs) == \E i \in 1..Len(fs) : ~fs[i].daytime

\* A bucket yields a record: one period, or a day and a night period.
Contributes(fs) == Len(fs) = 1 \/ (HasDay(fs) /\ HasNight(fs))

\* Where the record of the j-th bucket stands among the records.
Pos(j) == Cardinality({k \in 1..j : Contributes(bucket[k].fcasts)})

\* s without its leading and trailing whitespace: the substring t of s that
\* neither starts nor ends with whitespace and leaves only whitespace around it.
Trim(s) ==
    CHOOSE t \in {SubSeq(s, i, j) : i \in 1..(Len(s) + 1), j \in 0..Len(s)} :
        /\ \E i \in 1..(Len(s) + 1), j \in 0..Len(s) :
              /\ t = SubSeq(s, i, j)
              /\ \A k \in 1..(i - 1) : s[k] \in Whitespace
              /\ \A k \in (j + 1)..Len(s) : s[k] \in Whitespace
        /\ t = <<>> \/ (t[1] \notin Whitespace /\ t[Len(t)] \notin Whitespace)

\* The periods of fs with the given daytime flag that start latest.
Latest(fs, flag) ==
    {fs[i] : i \in {i \in 1..Len(fs) :
        /\ fs[i].daytime = flag
        /\ \A k \in 1..Len(fs) :
              fs[k].daytime = flag => Instant(fs[k]) <= Instant(fs[i])}}

\* r is the record merged from the day period d and the night period n.
IsMergeOf(r, d, n) ==
    /\ DOMAIN r = (DOMAIN d) \cup {"native_templow"}
    /\ r.detailed_description =
          Hashes \o StrDay \o NL \o Trim(d.detailed_description)
          \o NL \o NL \o Hashes \o StrNight \o NL \o Trim(n.detailed_description)
    /\ r.native_temperature = d.native_temperature
    /\ r.native_templow = n.native_temperature
    /\ \A k \in (DOMAIN d) \ {"detailed_description"} : r[k] = d[k]

\* C1: a bucket of two or more periods with a daytime and a nighttime period
\* yields the record merged from the latest daytime and the latest nighttime
\* period: sectioned description, temperature of the day period, temperature_low
\* of the night period, every other field the day period's; further periods of
\* the bucket change nothing.
C1_MergePair ==
    MergeCall =>
        \A j \in 1..Len(bucket) :
            LET fs == bucket[j].fcasts
            IN  (Len(fs) >= 2 /\ HasDay(fs) /\ HasNight(fs)) =>
                    /\ Pos(j) \in 1..Len(forecast)
                    /\ \E d \in Latest(fs, TRUE), n \in Latest(fs, FALSE) :
                          IsMergeOf(forecast[Pos(j)], d, n)

\* A bucket of three periods whose first is the later of two daytime periods has
\* been merged and returned.
C1_Witness ==
    /\ MergeCall
    /\ result.kind = "list"
    /\ \E j \in 1..Len(bucket) :
          LET fs == bucket[j].fcasts
          IN  /\ Len(fs) = 3
              /\ fs[1].daytime /\ fs[2].daytime /\ ~fs[3].daytime
              /\ Instant(fs[2]) < Instant(fs[1])
              /\ forecast[Pos(j)].native_temperature = fs[1].native_temperature

\* C2: a bucket of exactly one period yields, for a daytime period, a record
\* with description "### Day\n" + trim(D), temperature T and no temperature_low;
\* for a nighttime period, description "### Night\n" + trim(D), temperature_low T
\* and no temperature; the other fields but daytime are carried over.
C2_ConvertSingle ==
    MergeCall =>
        \A j \in 1..Len(bucket) :
            LET fs == bucket[j].fcasts
            IN  Len(fs) = 1 =>
                    /\ Pos(j) \in 1..Len(forecast)
                    /\ LET p == fs[1]
                           r == forecast[Pos(j)]
                           kept == IF p.daytime THEN "native_temperature"
                                   ELSE "native_templow"
                           title == IF p.daytime THEN StrDay ELSE StrNight
                       IN  /\ DOMAIN r = {"detailed_description", "datetime", kept}
                           /\ r[kept] = p.native_temperature
                           /\ r.datetime = p.datetime
                           /\ r.detailed_description =
                                 Hashes \o title \o NL \o Trim(p.detailed_description)

\* A lone nighttime period with a padded description has been converted.
C2_Witness ==
    /\ MergeCall
    /\ result.kind = "list"
    /\ \E j \in 1..Len(bucket) :
          LET fs == bucket[j].fcasts
          IN  /\ Len(fs) = 1
              /\ ~fs[1].daytime
              /\ Trim(fs[1].detailed_description) # fs[1].detailed_description
              /\ "native_templow" \in DOMAIN forecast[Pos(j)]

\* C3: with a mode other than DAYNIGHT a non-empty forecast is returned as it
\* is: the same periods in the same order with the same fields, and nothing is
\* bucketed, converted or merged.
C3_PassThrough ==
    (/\ result # Pending
     /\ orig_forecast.kind = "list"
     /\ orig_forecast.items # <<>>
     /\ mode # DAYNIGHT)
        => /\ result = nws_forecast
           /\ bucket = <<>>
           /\ forecast = <<>>
           /\ detailed_forecast = <<>>

\* A forecast of two periods of one day has been returned as it is.
C3_Witness ==
    /\ mode = HOURLY
    /\ result.kind = "list"
    /\ Len(result.items) = 2
    /\ result.items[1].daytime /\ ~result.items[2].daytime
    /\ Readable(result.items[1]) /\ Readable(result.items[2])
    /\ CalendarDate(result.items[1]) = CalendarDate(result.items[2])
    /\ result.items = Input

\* C4: an empty or absent forecast gives None, whatever the mode.
C4_NoForecast ==
    (/\ result # Pending
     /\ orig_forecast \in {None, List(<<>>)})
        => result = None

\* The empty forecast has given None in DAYNIGHT mode.
C4_Witness ==
    /\ orig_forecast = List(<<>>)
    /\ mode = DAYNIGHT
    /\ result = None

\* C5: the read of a non-empty forecast in DAYNIGHT mode never ends in an
\* exception: it returns a list.
C5_NeverRaises ==
    MergeCall => result.kind = "list"

\* C6: no record returned in DAYNIGHT mode has a daytime field, whether it was
\* converted from one period or merged from two.
C6_NoDaytimeField ==
    (MergeCall /\ result.kind = "list") =>
        \A i \in 1..Len(result.items) : "daytime" \notin DOMAIN result.items[i]

\* The input without the periods of the j-th bucket.
WithoutBucket(j) ==
    SelectSeq(Input, LAMBDA p : \A k \in 1..Len(bucket[j].fcasts) : bucket[j].fcasts[k] # p)

\* The records the bucketing and the bucket loop build from a list of periods.
RecordsOf(periods) ==
    LET b == BucketItems(periods, Len(periods)) IN BucketLoop(b, Len(b)).forecast

\* C7: a bucket of two or more periods without a daytime or without a nighttime
\* period yields no record, and the read returns exactly the records it builds
\* from the input without that bucket's periods.
C7_UnmergeableDay ==
    MergeCall =>
        \A j \in 1..Len(bucket) :
            LET fs == bucket[j].fcasts
            IN  (Len(fs) >= 2 /\ ~(HasDay(fs) /\ HasNight(fs))) =>
                    /\ result.kind = "list"
                    /\ result.items = RecordsOf(WithoutBucket(j))
                    /\ \A i \in 1..Len(result.items), k \in 1..Len(fs) :
                          result.items[i].datetime # fs[k].datetime

\* A day of two nighttime periods came before a day of one period, and only the
\* second day's record was returned.
C7_Witness ==
    /\ MergeCall
    /\ Len(bucket) = 2
    /\ Len(bucket[1].fcasts) = 2
    /\ ~HasDay(bucket[1].fcasts)
    /\ Len(bucket[2].fcasts) = 1
    /\ result.kind = "list"
    /\ Len(result.items) = 1
    /\ result.items[1].datetime = bucket[2].fcasts[1].datetime

\* The calendar dates written in the readable timestamps of the input.
CalendarDates == {CalendarDate(Input[i]) : i \in {i \in 1..Len(Input) : Readable(Input[i])}}

\* C8: the records returned in DAYNIGHT mode are at most as many as the distinct
\* calendar dates of the input's timestamps.
C8_OneRecordPerDate ==
    (MergeCall /\ result.kind = "list") =>
        Len(result.items) <= Cardinality(CalendarDates)

C10_Summary ==
    (MergeCall /\ Len(Input) >= 2) =>
        LET single == \E j \in 1..Len(bucket) : Len(bucket[j].fcasts) = 1
            first == IF single THEN StrTonight ELSE StrToday
            second == IF single THEN StrTomorrow ELSE StrTonight
        IN  detailed_forecast =
                Hashes \o first \o NL \o Input[1].detailed_description \o NL
                \o Hashes \o second \o NL \o Input[2].detailed_description

\* The first input period was skipped as unreadable, a one-period bucket was
\* seen, and the summary still opens with the skipped period's description.
C10_Witness ==
    /\ MergeCall
    /\ Len(Input) = 3
    /\ ~Readable(Input[1])
    /\ \E j \in 1..Len(bucket) : Len(bucket[j].fcasts) = 1
    /\ SubSeq(detailed_forecast, 1, Len(Hashes \o StrTonight)) = Hashes \o StrTonight
    /\ result.kind = "list"

\* Where a period stands in the input (its temperature tells the periods apart).
IndexOf(p) == CHOOSE i \in 1..Len(Input) : Input[i] = p

\* The local midnight of a period's start, as an instant: its day.
DayOf(datetime) == datetime[1] * 24 - datetime[3]

\* Where the day of a record is first seen in the input.
FirstSeen(r) ==
    CHOOSE i \in 1..Len(Input) :
        /\ Readable(Input[i]) /\ DayOf(Input[i].datetime) = DayOf(r.datetime)
        /\ \A k \in 1..(i - 1) :
              ~(Readable(Input[k]) /\ DayOf(Input[k].datetime) = DayOf(r.datetime))

\* C11: the records stand in the order in which their days are first seen in
\* the input, sorted or not: the buckets are in first-seen order, the periods
\* of a bucket are in input order, and of two records the one whose day is
\* seen first comes first.
C11_FirstSeenOrder ==
    MergeCall =>
        /\ \A j, k \in 1..Len(bucket) :
              j < k => IndexOf(bucket[j].fcasts[1]) < IndexOf(bucket[k].fcasts[1])
        /\ \A j \in 1..Len(bucket) :
              \A a, b \in 1..Len(bucket[j].fcasts) :
                  a < b => IndexOf(bucket[j].fcasts[a]) < IndexOf(bucket[j].fcasts[b])
        /\ \A i, k \in 1..Len(forecast) :
              i < k => FirstSeen(forecast[i]) < FirstSeen(forecast[k])
        /\ result.kind = "list" => result.items = forecast

\* The input runs backwards in time, a period of date 2 before two periods of
\* date 1, and the record of date 2 is returned first.
C11_Witness ==
    /\ MergeCall
    /\ Len(Input) = 3
    /\ Readable(Input[1]) /\ Readable(Input[2]) /\ Readable(Input[3])
    /\ Instant(Input[1]) > Instant(Input[2])
    /\ Instant(Input[2]) > Instant(Input[3])
    /\ result.kind = "list"
    /\ Len(result.items) = 2
    /\ CalendarDate(result.items[1]) = 2
    /\ CalendarDate(result.items[2]) = 1

\* C12: a read only reads its input: on every path (None, unaltered, single
\* conversion, merge, failed merge) the original forecast and each of its
\* periods have the same fields and values after the read as before it.
C12_InputOnlyRead == [][nws_forecast' = nws_forecast]_vars

\* A lone nighttime period was converted and a day was merged, and the input
\* periods they were built from still have their daytime and temperature fields.
C12_Witness ==
    /\ MergeCall
    /\ result.kind = "list"
    /\ \E j, k \in 1..Len(bucket) :
          /\ Len(bucket[j].fcasts) = 1
          /\ ~bucket[j].fcasts[1].daytime
          /\ "native_temperature" \notin DOMAIN forecast[Pos(j)]
          /\ Len(bucket[k].fcasts) = 2
          /\ Contributes(bucket[k].fcasts)
          /\ forecast[Pos(k)].detailed_description
                # Input[FirstSeen(forecast[Pos(k)])].detailed_description
    /\ \A i \in 1..Len(Input) :
          DOMAIN Input[i] = {"detailed_description", "datetime", "daytime",
                             "native_temperature"}

\* C13: whatever hooks and retry callbacks ran before, when async_remove_entry
\* completes the class's forecast and state_attributes are the provider's
\* original properties, never the patched ones and never None.
C13_RemovalRestores ==
    [][RemoveEntry => /\ NWSWeather_forecast' = "original"
                      /\ NWSWeather_state_attributes' = "original"]_vars

\* C14: in every reachable state each cached original, NWS_FORECAST_PROP and
\* NWS_STATE_ATTRIBUTE_PROP, is unset or the provider's unpatched property:
\* async_setup never stores the patched property as the original.
C14_CachedOriginals ==
    /\ NWS_FORECAST_PROP \in {"None", "original"}
    /\ NWS_STATE_ATTRIBUTE_PROP \in {"None", "original"}

\* C15: once async_remove_entry has completed, no step other than a new
\* async_setup_entry call by the host installs the patch on the class; a retry
\* callback scheduled before the removal that fires after it does not.
C15_RemovalFinal ==
    [][removed /\ ~HostSetupEntry =>
          /\ NWSWeather_forecast' = "patched" => NWSWeather_forecast = "patched"
          /\ NWSWeather_state_attributes' = "patched" =>
                NWSWeather_state_attributes = "patched"]_vars

\* the hook that starts chain c has been called
Started(c) == IF c = 0 THEN setup_called ELSE c <= entries

\* a callback of chain c is held by async_call_later
PendingOf(c) == {t \in timers : t.chain = c}

\* the retries of every chain are counted by the tries of its callback, which
\* runs from 2 to 11; a chain holds at most one callback; a chain that ended
\* while the module was never found made exactly 10 retries
C16_Bounded ==
    /\ \A t \in timers : /\ t.tries \in 2..(MaxTries + 1)
                         /\ retries[t.chain] = t.tries - 1
    /\ \A t, u \in timers : t.chain = u.chain => t = u
    /\ \A c \in Chains : retries[c] <= MaxTries
    /\ \A c \in Chains :
          ~module_available /\ Started(c) /\ PendingOf(c) = {} => retries[c] = MaxTries

\* a step taken while the module can be imported schedules no callback
C16_NoRetryOnceFound ==
    module_available => timers' \subseteq timers /\ retries' = retries

\* C16: the retry chain is bounded and ends: while the module stays unavailable
\* a hook started with tries = 1 schedules exactly 10 retries, run with tries
\* 2 to 11, the call with tries > 10 schedules nothing, every failed attempt
\* schedules at most one callback, once the module is found no retry is
\* scheduled, and eventually no retry is pending.
C16_RetryChainEnds ==
    /\ []C16_Bounded
    /\ [][C16_NoRetryOnceFound]_vars
    /\ <>[](timers = {})

\* a chain gave up: the module was never found, async_setup made its 10
\* retries and holds no callback
C16_Witness ==
    /\ ~module_available
    /\ setup_called
    /\ retries[0] = MaxTries
    /\ PendingOf(0) = {}

====
